---- MODULE Spec2Model ----
(***************************************************************************)
(* Model of src/http.ts: getClient (a fetch wrapper that merges default    *)
(* options, reads the body as JSON or text and raises on !res.ok) and the  *)
(* two Response helpers ok and err.                                        *)
(***************************************************************************)
EXTENDS Integers, Sequences, FiniteSets, TLC

VARIABLES
  defaultOpts,   \* the object captured by getClient's closure (current content)
  defaultOpts0,  \* its content when getClient was called
  base,          \* the reply the fetch double serves to authorised requests
  calls,         \* one record per invocation slot of the bound client
  helper         \* last call of ok()/err() and what it produced

vars == <<defaultOpts, defaultOpts0, base, calls, helper>>

\* Number of invocations of the bound client that may be in flight at once.
MaxCalls == 2

Calls == 1..MaxCalls

(***************************************************************************)
(* JavaScript values                                                       *)
(***************************************************************************)
NoFields == [k \in {} |-> ""]

Str(s) == [type |-> "string", str |-> s, fields |-> NoFields]
Obj(f) == [type |-> "object", str |-> "", fields |-> f]

\* An options argument: `def` is FALSE for undefined, else props are the
\* object's own enumerable properties.
NoProps == [k \in {} |-> Str("")]
Undefined == [def |-> FALSE, props |-> NoProps]
Options(p) == [def |-> TRUE, props |-> p]

HeadersA == Obj([n \in {"A"} |-> "1"])
HeadersB == Obj([n \in {"B"} |-> "2"])

DefaultOptsChoices ==
  { Undefined,
    Options([k \in {"headers"} |-> HeadersA]),
    Options([k \in {"headers", "method"} |->
               IF k = "headers" THEN HeadersA ELSE Str("GET")]) }

InitChoices ==
  { Undefined,
    Options([k \in {"headers"} |-> HeadersB]),
    Options([k \in {"method"} |-> Str("POST")]) }

Targets == {"https://x/y", "https://x/down"}

(***************************************************************************)
(* Strings                                                                 *)
(***************************************************************************)
\* String.prototype.includes: case-sensitive substring search.
includes(s, sub) ==
  \E i \in 1..(Len(s) - Len(sub) + 1) : SubSeq(s, i, i + Len(sub) - 1) = sub

Digit(d) == SubSeq("0123456789", d + 1, d + 1)

RECURSIVE NumToString(_)
\* Template-literal rendering of a non-negative integer.
NumToString(n) ==
  IF n < 10 THEN Digit(n) ELSE NumToString(n \div 10) \o Digit(n % 10)


RECURSIVE JoinFields(_, _)
JoinFields(f, ks) ==
  IF ks = {} THEN ""
  ELSE LET k == CHOOSE x \in ks : TRUE
           rest == ks \ {k}
       IN "\"" \o k \o "\":\"" \o f[k] \o "\""
          \o (IF rest = {} THEN "" ELSE ",") \o JoinFields(f, rest)

\* JSON.stringify of a value: a string is quoted, an object renders its own
\* enumerable properties (none for a ReadableStream, hence "{}").
JsonStringify(v) ==
  IF v.type = "string" THEN "\"" \o v.str \o "\""
  ELSE "{" \o JoinFields(v.fields, DOMAIN v.fields) \o "}"

(***************************************************************************)
(* Responses and the fetch double                                          *)
(***************************************************************************)
NoError == [name |-> "", message |-> ""]
TransportError == [name |-> "TypeError", message |-> "fetch failed"]
SyntaxError == [name |-> "SyntaxError", message |-> "Unexpected token"]
StreamError == [name |-> "TypeError", message |-> "body stream errored"]

\* A settled promise: fulfilled with a value or rejected with an error.
Pending == [kind |-> "pending", value |-> Str(""), error |-> NoError]
Fulfilled(v) == [kind |-> "fulfilled", value |-> v, error |-> NoError]
Rejected(e) == [kind |-> "rejected", value |-> Str(""), error |-> e]

\* res.body of a fetch Response: a ReadableStream, an object without own
\* enumerable properties.
ReadableStream == Obj(NoFields)

NoHeader == [present |-> FALSE, value |-> ""]
Header(v) == [present |-> TRUE, value |-> v]

ContentTypes ==
  { NoHeader, Header("application/json"),
    Header("application/json; charset=utf-8"), Header("Application/JSON") }

Statuses == {200, 404}

\* What the body holds: its raw text, and whether reading the stream fails.
Payloads ==
  { [raw |-> "not found", broken |-> FALSE],
    [raw |-> "{\"a\":\"1\"}", broken |-> FALSE],
    [raw |-> "", broken |-> TRUE] }

Response(status, url, ct, payload) ==
  [status |-> status, ok |-> (status \in 200..299), url |-> url,
   contentType |-> ct, payload |-> payload, body |-> ReadableStream]

Responses ==
  { Response(s, "", ct, p) : s \in Statuses, ct \in ContentTypes, p \in Payloads }

NoResponse == Response(0, "", NoHeader, [raw |-> "", broken |-> FALSE])

\* res.json(): parses the body text.
json(res) ==
  IF res.payload.broken THEN Rejected(StreamError)
  ELSE IF res.payload.raw = "{\"a\":\"1\"}"
       THEN Fulfilled(Obj([n \in {"a"} |-> "1"]))
       ELSE Rejected(SyntaxError)

\* res.text(): the body text as a string.
text(res) ==
  IF res.payload.broken THEN Rejected(StreamError)
  ELSE Fulfilled(Str(res.payload.raw))

\* The primitive handed to getClient: a deterministic double.  It cannot
\* reach one host, answers 401 to a request without a headers option and
\* 201 to a POST, and serves `base` otherwise.
fetch(target, init) ==
  LET has(k) == init.def /\ k \in DOMAIN init.props
      reply(res) == [kind |-> "fulfilled", error |-> NoError, value |-> res]
  IN IF target = "https://x/down" THEN Rejected(TransportError)
     ELSE IF ~has("headers")
     THEN reply(Response(401, target, Header("text/plain"),
                         [raw |-> "unauthorized", broken |-> FALSE]))
     ELSE IF has("method") /\ init.props["method"] = Str("POST")
     THEN reply(Response(201, target, Header("application/json"),
                         [raw |-> "{\"a\":\"1\"}", broken |-> FALSE]))
     ELSE reply([base EXCEPT !.url = target])

(***************************************************************************)
(* getClient: the bound client                                             *)
(***************************************************************************)
IdleCall ==
  [pc |-> "idle", target |-> "", init |-> Undefined, init0 |-> Undefined,
   passedTarget |-> "", passed |-> Undefined,
   reply |-> Pending, res |-> NoResponse, isJson |-> "undefined",
   read |-> Pending, result |-> Str(""), outcome |-> Pending,
   nFetch |-> 0, nJson |-> 0, nText |-> 0, nError |-> 0, trace |-> <<>>]

\* { ...a, ...b } : own properties of a, overlaid by those of b; spreading
\* undefined contributes nothing.
Spread(a, b) ==
  LET bp == IF b.def THEN b.props ELSE NoProps
  IN [k \in (DOMAIN a.props) \cup (DOMAIN bp) |->
        IF k \in DOMAIN bp THEN bp[k] ELSE a.props[k]]

\* Variant: the defaults are spread last, { ...init, ...defaultOpts }.
mergeDefaultsWin(defaults, init) ==
  [passed |-> IF defaults.def
              THEN Options(Spread(IF init.def THEN init ELSE Options(NoProps),
                                  defaults))
              ELSE init,
   defaults |-> defaults,
   init |-> init]

\* Variant: the merge is made in place, Object.assign(defaultOpts, init).
mergeIntoDefaults(defaults, init) ==
  [passed |-> IF defaults.def THEN Options(Spread(defaults, init)) ELSE init,
   defaults |-> IF defaults.def THEN Options(Spread(defaults, init))
                ELSE defaults,
   init |-> init]

\* Variant: the merged keys are written back into the caller's object.
mergeIntoInit(defaults, init) ==
  [passed |-> IF defaults.def THEN Options(Spread(defaults, init)) ELSE init,
   defaults |-> defaults,
   init |-> IF defaults.def /\ init.def
            THEN Options(Spread(defaults, init)) ELSE init]

\* let init = params[1]; if (defaultOpts) init = { ...defaultOpts, ...init }
\* Yields the options handed to fetch, and the content of the two argument
\* objects afterwards.
merge(defaults, init) ==
  [passed |-> IF defaults.def THEN Options(Spread(defaults, init)) ELSE init,
   defaults |-> defaults,
   init |-> init]

\* Variant: the header is compared for equality instead of searched.
isJsonExact(res) ==
  IF ~res.contentType.present THEN "undefined"
  ELSE IF res.contentType.value = "application/json" THEN "true"
  ELSE "false"

\* res.headers.get("content-type")?.includes("application/json")
isJsonOf(res) ==
  IF ~res.contentType.present THEN "undefined"
  ELSE IF includes(res.contentType.value, "application/json") THEN "true"
  ELSE "false"

Truthy(b) == b = "true"

\* The template literal of the thrown Error.
errorMessage(res, isJson, result) ==
  "Request to " \o res.url \o " failed with status " \o NumToString(res.status)
  \o " and response \""
  \o (IF Truthy(isJson) THEN JsonStringify(res.body) ELSE result.str)
  \o "\"."

\* Synchronous part of a call, up to `await fetch(params[0], init)`.
start(target, init, m) ==
  [IdleCall EXCEPT !.pc = "awaitFetch", !.target = target,
                   !.init = m.init, !.init0 = init,
                   !.passedTarget = target, !.passed = m.passed,
                   !.nFetch = 1, !.trace = <<"fetch">>]

\* Variant: res.ok is tested first and the body of a failed response is
\* not read.
afterFetchFulfilledOkFirst(call, res) ==
  LET isJson == isJsonOf(res)
  IN IF res.ok
     THEN [call EXCEPT !.pc = "awaitBody",
                       !.reply = Fulfilled(Str("response")),
                       !.res = res, !.isJson = isJson,
                       !.nJson = IF Truthy(isJson) THEN @ + 1 ELSE @,
                       !.nText = IF Truthy(isJson) THEN @ ELSE @ + 1,
                       !.trace = @ \o <<"fetch:fulfilled", "ok?",
                                        IF Truthy(isJson) THEN "json"
                                        ELSE "text">>]
     ELSE [call EXCEPT !.pc = "rejected",
                       !.reply = Fulfilled(Str("response")),
                       !.res = res, !.isJson = isJson, !.nError = @ + 1,
                       !.outcome = Rejected(
                          [name |-> "Error",
                           message |-> errorMessage(res, "false", Str(""))]),
                       !.trace = @ \o <<"fetch:fulfilled", "ok?", "settle">>]

\* fetch fulfilled with res: sniff the content type, start reading the body.
afterFetchFulfilled(call, res) ==
  LET isJson == isJsonOf(res)
  IN [call EXCEPT !.pc = "awaitBody", !.reply = Fulfilled(Str("response")),
                  !.res = res, !.isJson = isJson,
                  !.nJson = IF Truthy(isJson) THEN @ + 1 ELSE @,
                  !.nText = IF Truthy(isJson) THEN @ ELSE @ + 1,
                  !.trace = @ \o <<"fetch:fulfilled",
                                   IF Truthy(isJson) THEN "json" ELSE "text">>]

\* Variant: the transport error is caught and wrapped in a new Error.
afterFetchRejectedWrapped(call, e) ==
  [call EXCEPT !.pc = "rejected", !.reply = Rejected(e), !.nError = @ + 1,
               !.outcome = Rejected([name |-> "Error",
                                     message |-> "Request failed: " \o e.message]),
               !.trace = @ \o <<"fetch:rejected", "settle">>]

\* fetch rejected: the await throws, nothing catches it.
afterFetchRejected(call, e) ==
  [call EXCEPT !.pc = "rejected", !.reply = Rejected(e),
               !.outcome = Rejected(e),
               !.trace = @ \o <<"fetch:rejected", "settle">>]

\* Variant: the throw is missing, the body is returned whatever res.ok is.
afterBodyFulfilledNoThrow(call, value) ==
  [call EXCEPT !.pc = "resolved", !.read = Fulfilled(value),
               !.result = value, !.outcome = Fulfilled(value),
               !.trace = @ \o <<"body:fulfilled", "ok?", "settle">>]

\* The body read fulfilled with value: return it or throw on !res.ok.
afterBodyFulfilled(call, value) ==
  IF call.res.ok
  THEN [call EXCEPT !.pc = "resolved", !.read = Fulfilled(value),
                    !.result = value, !.outcome = Fulfilled(value),
                    !.trace = @ \o <<"body:fulfilled", "ok?", "settle">>]
  ELSE [call EXCEPT !.pc = "rejected", !.read = Fulfilled(value),
                    !.result = value, !.nError = @ + 1,
                    !.outcome = Rejected(
                       [name |-> "Error",
                        message |-> errorMessage(call.res, call.isJson, value)]),
                    !.trace = @ \o <<"body:fulfilled", "ok?", "settle">>]

\* Variant: on a failed response a decode error is caught and the
\* request error is raised with an empty rendering.
afterBodyRejectedFallback(call, e) ==
  IF call.res.ok
  THEN [call EXCEPT !.pc = "rejected", !.read = Rejected(e),
                    !.outcome = Rejected(e),
                    !.trace = @ \o <<"body:rejected", "settle">>]
  ELSE [call EXCEPT !.pc = "rejected", !.read = Rejected(e),
                    !.nError = @ + 1,
                    !.outcome = Rejected(
                       [name |-> "Error",
                        message |-> errorMessage(call.res, "false", Str(""))]),
                    !.trace = @ \o <<"body:rejected", "ok?", "settle">>]

\* The body read rejected: the await throws, nothing catches it.
afterBodyRejected(call, e) ==
  [call EXCEPT !.pc = "rejected", !.read = Rejected(e),
               !.outcome = Rejected(e),
               !.trace = @ \o <<"body:rejected", "settle">>]

bodyRead(call) == IF Truthy(call.isJson) THEN json(call.res) ELSE text(call.res)

Settled(c) == calls[c].pc \in {"resolved", "rejected"}

Invoke(c, target, init) ==
  /\ calls[c].pc \in {"idle", "resolved", "rejected"}
  /\ LET m == merge(defaultOpts, init)
     IN /\ defaultOpts' = m.defaults
        /\ calls' = [calls EXCEPT ![c] = start(target, init, m)]
  /\ UNCHANGED <<defaultOpts0, base, helper>>

FetchFulfil(c) ==
  /\ calls[c].pc = "awaitFetch"
  /\ LET r == fetch(calls[c].passedTarget, calls[c].passed)
     IN /\ r.kind = "fulfilled"
        /\ calls' = [calls EXCEPT ![c] = afterFetchFulfilled(@, r.value)]
  /\ UNCHANGED <<defaultOpts, defaultOpts0, base, helper>>

FetchReject(c) ==
  /\ calls[c].pc = "awaitFetch"
  /\ LET r == fetch(calls[c].passedTarget, calls[c].passed)
     IN /\ r.kind = "rejected"
        /\ calls' = [calls EXCEPT ![c] = afterFetchRejected(@, r.error)]
  /\ UNCHANGED <<defaultOpts, defaultOpts0, base, helper>>

BodyFulfil(c) ==
  /\ calls[c].pc = "awaitBody"
  /\ LET r == bodyRead(calls[c])
     IN /\ r.kind = "fulfilled"
        /\ calls' = [calls EXCEPT ![c] = afterBodyFulfilled(@, r.value)]
  /\ UNCHANGED <<defaultOpts, defaultOpts0, base, helper>>

BodyReject(c) ==
  /\ calls[c].pc = "awaitBody"
  /\ LET r == bodyRead(calls[c])
     IN /\ r.kind = "rejected"
        /\ calls' = [calls EXCEPT ![c] = afterBodyRejected(@, r.error)]
  /\ UNCHANGED <<defaultOpts, defaultOpts0, base, helper>>

(***************************************************************************)
(* ok and err                                                              *)
(***************************************************************************)
\* An argument that may be left out (or passed as undefined).
Omitted(v) == [given |-> FALSE, v |-> v]
Given(v) == [given |-> TRUE, v |-> v]

StatusValues ==
  {-1, 0, 99, 100, 199, 200, 201, 204, 205, 299, 304, 400, 404, 500, 599,
   600, 65736}
StatusArgs == {Omitted(0)} \cup {Given(n) : n \in StatusValues}
MsgArgs == {Omitted(""), Given("Created"), Given("Not Found"), Given("")}

NullBodyStatuses == {101, 103, 204, 205, 304}

\* new Response(msg, { status }) with a string body: status is converted to
\* an unsigned short, must lie in 200..599 and must allow a body.
NewResponse(body, status) ==
  LET s == status % 65536
  IN IF s \notin 200..599
     THEN [kind |-> "throw", resStatus |-> -1, resBody |-> "",
           thrown |-> "RangeError"]
     ELSE IF s \in NullBodyStatuses
     THEN [kind |-> "throw", resStatus |-> -1, resBody |-> "",
           thrown |-> "TypeError"]
     ELSE [kind |-> "response", resStatus |-> s, resBody |-> body,
           thrown |-> ""]

\* (status = 200, msg = "Ok") => new Response(msg, { status })
ok(status, msg) ==
  NewResponse(IF msg.given THEN msg.v ELSE "Ok",
              IF status.given THEN status.v ELSE 200)

\* Variant: err carries the default message of ok.
errOkMessage(status, msg) ==
  NewResponse(IF msg.given THEN msg.v ELSE "Ok",
              IF status.given THEN status.v ELSE 400)

\* (status = 400, msg = "Bad Request") => new Response(msg, { status })
err(status, msg) ==
  NewResponse(IF msg.given THEN msg.v ELSE "Bad Request",
              IF status.given THEN status.v ELSE 400)

NoHelperCall ==
  [fn |-> "", status |-> Omitted(0), msg |-> Omitted(""), kind |-> "none",
   resStatus |-> -1, resBody |-> "", thrown |-> ""]

HelperCall(fn, status, msg, r) ==
  [fn |-> fn, status |-> status, msg |-> msg, kind |-> r.kind,
   resStatus |-> r.resStatus, resBody |-> r.resBody, thrown |-> r.thrown]

CallOk(status, msg) ==
  /\ helper' = HelperCall("ok", status, msg, ok(status, msg))
  /\ UNCHANGED <<defaultOpts, defaultOpts0, base, calls>>

CallErr(status, msg) ==
  /\ helper' = HelperCall("err", status, msg, err(status, msg))
  /\ UNCHANGED <<defaultOpts, defaultOpts0, base, calls>>

\* getClient(fetch, defaultOpts) has returned; no call made yet.
Init ==
  /\ defaultOpts \in DefaultOptsChoices
  /\ defaultOpts0 = defaultOpts
  /\ base \in Responses
  /\ calls = [c \in Calls |-> IdleCall]
  /\ helper = NoHelperCall

Next ==
  \/ \E c \in Calls, t \in Targets, i \in InitChoices : Invoke(c, t, i)
  \/ \E c \in Calls : FetchFulfil(c)
  \/ \E c \in Calls : FetchReject(c)
  \/ \E c \in Calls : BodyFulfil(c)
  \/ \E c \in Calls : BodyReject(c)

Spec == Init /\ [][Next]_vars

\* The helpers alone: no client call is in flight.
HelpersInit ==
  /\ defaultOpts = Undefined
  /\ defaultOpts0 = Undefined
  /\ base = Response(200, "", NoHeader, [raw |-> "", broken |-> TRUE])
  /\ calls = [c \in Calls |-> IdleCall]
  /\ helper = NoHelperCall

HelpersNext ==
  \/ \E s \in StatusArgs, m \in MsgArgs : CallOk(s, m)
  \/ \E s \in StatusArgs, m \in MsgArgs : CallErr(s, m)

SpecHelpers == HelpersInit /\ [][HelpersNext]_vars

(***************************************************************************)
(* Properties                                                              *)
(***************************************************************************)
\* What the primitive answers to the request slot c made.
Replied(c) == fetch(calls[c].passedTarget, calls[c].passed)

\* What the body-reading method slot c invoked answers.
ReadOf(c) ==
  IF calls[c].nJson > 0 THEN json(Replied(c).value) ELSE text(Replied(c).value)

\* Slot c holds a finished call whose fetch and body read both succeeded.
BodyWasRead(c) ==
  /\ Settled(c)
  /\ Replied(c).kind = "fulfilled"
  /\ ReadOf(c).kind = "fulfilled"

\* The call in slot c ended by throwing the Error the client builds itself.
RequestFailure(c) ==
  /\ calls[c].pc = "rejected"
  /\ calls[c].nError = 1
  /\ calls[c].outcome.kind = "rejected"
  /\ calls[c].outcome.error.name = "Error"

\* C1: when fetch resolves and the body read succeeds, the call rejects with
\* the client's own Error iff res.ok is false and resolves with the body
\* value iff res.ok is true; the message of the Error contains res.url and
\* the decimal status.
C1_RejectsIffNotOk ==
  \A c \in Calls : BodyWasRead(c) =>
    LET res == Replied(c).value
    IN /\ RequestFailure(c) <=> ~res.ok
       /\ (/\ calls[c].pc = "resolved"
           /\ calls[c].outcome = Fulfilled(ReadOf(c).value)) <=> res.ok
       /\ calls[c].pc = "rejected" =>
            /\ includes(calls[c].outcome.error.message, res.url)
            /\ includes(calls[c].outcome.error.message,
                        NumToString(res.status))

C1_Witness ==
  \E c, d \in Calls :
    /\ BodyWasRead(c) /\ RequestFailure(c) /\ Replied(c).value.status = 404
    /\ BodyWasRead(d) /\ calls[d].pc = "resolved"

\* C2: the rendering in the message of the client's Error is
\* JSON.stringify of the value json() returned when the content type was
\* JSON, and the text() string otherwise.
C2_RendersParsedBody ==
  \A c \in Calls : (BodyWasRead(c) /\ RequestFailure(c)) =>
    calls[c].outcome.error.message =
      "Request to " \o Replied(c).value.url \o " failed with status "
      \o NumToString(Replied(c).value.status) \o " and response \""
      \o (IF calls[c].nJson > 0 THEN JsonStringify(ReadOf(c).value)
          ELSE ReadOf(c).value.str)
      \o "\"."

\* C3: fetch receives the target unchanged and (i) the shallow merge, per-call
\* keys replacing whole default keys, when both options are given, (ii)
\* options equal to the defaults when only they are given, (iii) the per-call
\* options when only they are given, (iv) undefined when neither is.
C3_MergedOptions ==
  \A c \in Calls : calls[c].pc # "idle" =>
    LET d == defaultOpts0
        i == calls[c].init0
        p == calls[c].passed
    IN /\ calls[c].passedTarget = calls[c].target
       /\ (d.def /\ i.def) =>
            /\ p.def
            /\ DOMAIN p.props = (DOMAIN d.props) \cup (DOMAIN i.props)
            /\ \A k \in DOMAIN i.props : p.props[k] = i.props[k]
            /\ \A k \in (DOMAIN d.props) \ (DOMAIN i.props) :
                 p.props[k] = d.props[k]
       /\ (d.def /\ ~i.def) => p = d
       /\ (~d.def /\ i.def) => p = i
       /\ (~d.def /\ ~i.def) => p = Undefined
       /\ (/\ d = Options([k \in {"headers"} |-> HeadersA])
           /\ i = Options([k \in {"headers"} |-> HeadersB]))
          => p = Options([k \in {"headers"} |-> HeadersB])

C3_Witness ==
  \E c \in Calls :
    /\ calls[c].pc # "idle"
    /\ calls[c].target = "https://x/y"
    /\ DOMAIN defaultOpts0.props = {"headers", "method"}
    /\ calls[c].init0 = Options([k \in {"headers"} |-> HeadersB])
    /\ calls[c].passed.props["headers"] = HeadersB
    /\ calls[c].passed.props["method"] = Str("GET")

\* C4: the client invokes json() exactly when the content-type header is
\* present and contains "application/json" (case-sensitively) and text()
\* otherwise, never both; for an ok response it resolves to what that method
\* produced.  A missing header and "Application/JSON" both count as not JSON.
C4_JsonIffContentType ==
  \A c \in Calls :
    (calls[c].pc \in {"awaitBody", "resolved", "rejected"}
       /\ Replied(c).kind = "fulfilled") =>
      LET res == Replied(c).value
          wantsJson == /\ res.contentType.present
                       /\ includes(res.contentType.value, "application/json")
      IN /\ calls[c].nJson = (IF wantsJson THEN 1 ELSE 0)
         /\ calls[c].nText = (IF wantsJson THEN 0 ELSE 1)
         /\ (res.contentType = NoHeader) => calls[c].nJson = 0
         /\ (res.contentType = Header("Application/JSON")) => calls[c].nJson = 0
         /\ (Settled(c) /\ res.ok /\ wantsJson /\ json(res).kind = "fulfilled")
              => calls[c].outcome = Fulfilled(json(res).value)
         /\ (Settled(c) /\ res.ok /\ ~wantsJson /\ text(res).kind = "fulfilled")
              => /\ calls[c].outcome = Fulfilled(text(res).value)
                 /\ calls[c].outcome.value.type = "string"

C4_Witness ==
  \E c, d \in Calls :
    /\ calls[c].pc = "resolved"
    /\ Replied(c).value.contentType = Header("Application/JSON")
    /\ calls[c].outcome.value = Str("{\"a\":\"1\"}")
    /\ calls[d].pc = "resolved"
    /\ Replied(d).value.contentType = Header("application/json")
    /\ calls[d].outcome.value = Obj([n \in {"a"} |-> "1"])

\* C5: when fetch rejects, the call rejects with that same error; fetch was
\* invoked once, json() and text() were not invoked and the client built no
\* Error of its own.
C5_TransportErrorPropagates ==
  \A c \in Calls :
    (calls[c].pc # "idle" /\ calls[c].pc # "awaitFetch"
       /\ Replied(c).kind = "rejected") =>
      /\ calls[c].pc = "rejected"
      /\ calls[c].outcome = Rejected(Replied(c).error)
      /\ calls[c].nFetch = 1
      /\ calls[c].nJson = 0
      /\ calls[c].nText = 0
      /\ calls[c].nError = 0

C5_Witness ==
  \E c \in Calls :
    /\ calls[c].pc = "rejected"
    /\ calls[c].target = "https://x/down"
    /\ calls[c].outcome.error = TransportError

\* C6: when json() or text() rejects, the call rejects with that same error
\* whatever res.ok is: no Error is built for a failed response and no value
\* is returned for a successful one.
C6_DecodeErrorPropagates ==
  \A c \in Calls :
    (Settled(c) /\ Replied(c).kind = "fulfilled"
       /\ ReadOf(c).kind = "rejected") =>
      /\ calls[c].pc = "rejected"
      /\ calls[c].outcome = Rejected(ReadOf(c).error)
      /\ calls[c].nError = 0

C6_Witness ==
  \E c \in Calls :
    /\ Settled(c)
    /\ Replied(c).kind = "fulfilled"
    /\ ~Replied(c).value.ok
    /\ Replied(c).value.contentType = Header("application/json")
    /\ calls[c].nJson = 1
    /\ calls[c].outcome = Rejected(SyntaxError)

\* The status and message a helper call asked for, defaults filled in.
AskedStatus == IF helper.status.given THEN helper.status.v
               ELSE IF helper.fn = "ok" THEN 200 ELSE 400
AskedMsg == IF helper.msg.given THEN helper.msg.v
            ELSE IF helper.fn = "ok" THEN "Ok" ELSE "Bad Request"

\* C7 as stated: ok and err return, for any integer status, a response with
\* exactly that status and message (defaults 200 "Ok" and 400 "Bad Request").
C7_AnyStatus ==
  helper.fn # "" =>
    /\ helper.kind = "response"
    /\ helper.resStatus = AskedStatus
    /\ helper.resBody = AskedMsg

\* C7 amended: ok and err return a response with exactly the given status and
\* message for every status in 200..599 except 204, 205 and 304; omitted
\* arguments take 200 "Ok" and 400 "Bad Request", each on its own.
C7_ValidStatus ==
  (helper.fn # "" /\ AskedStatus \in (200..599) \ {204, 205, 304}) =>
    /\ helper.kind = "response"
    /\ helper.resStatus = AskedStatus
    /\ helper.resBody = AskedMsg

C7_Witness ==
  /\ helper.fn = "err"
  /\ helper.status = Given(404)
  /\ ~helper.msg.given
  /\ helper.kind = "response"
  /\ helper.resBody = "Bad Request"

\* C8: two finished calls of the client with the same target and the same
\* per-call options have the same outcome, whatever ran before or between.
C8_SameArgsSameOutcome ==
  \A c, d \in Calls :
    (/\ Settled(c) /\ Settled(d)
     /\ calls[c].target = calls[d].target
     /\ calls[c].init0 = calls[d].init0)
    => calls[c].outcome = calls[d].outcome

C8_Witness ==
  \E c, d \in Calls :
    /\ c # d
    /\ Settled(c) /\ Settled(d)
    /\ calls[c].target = calls[d].target
    /\ calls[c].init0 = calls[d].init0
    /\ defaultOpts0.def /\ calls[c].init0.def
    /\ RequestFailure(c) /\ RequestFailure(d)

\* C9: the captured defaultOpts object and every per-call options object
\* hold what they held when they were passed in.
C9_OptionsUnchanged ==
  /\ defaultOpts = defaultOpts0
  /\ \A c \in Calls : calls[c].init = calls[c].init0

C9_Witness ==
  \E c \in Calls :
    /\ Settled(c)
    /\ defaultOpts0.def /\ calls[c].init0.def
    /\ calls[c].passed # defaultOpts0
    /\ calls[c].passed # calls[c].init0

\* The order of steps of one call.
StepOrders ==
  { <<"fetch", "fetch:rejected", "settle">> }
  \cup { <<"fetch", "fetch:fulfilled", m, "body:fulfilled", "ok?", "settle">> :
           m \in {"json", "text"} }
  \cup { <<"fetch", "fetch:fulfilled", m, "body:rejected", "settle">> :
           m \in {"json", "text"} }

IsPrefix(s, t) == Len(s) <= Len(t) /\ s = SubSeq(t, 1, Len(s))

Count(s, xs) == Cardinality({i \in DOMAIN s : s[i] \in xs})

\* C10: a call invokes fetch once; only once fetch has resolved does it
\* invoke exactly one of json() and text(), once, also when res.ok is false;
\* res.ok is examined and the call settles only after the body read has
\* settled.  It waits at no more than two points.
C10_StepOrder ==
  \A c \in Calls : calls[c].pc # "idle" =>
    LET k == calls[c]
    IN /\ \E t \in StepOrders :
            /\ IsPrefix(k.trace, t)
            /\ Settled(c) <=> k.trace = t
       /\ k.nFetch = 1
       /\ k.nJson + k.nText = Count(k.trace, {"fetch:fulfilled"})
       /\ Count(k.trace, {"json", "text"}) = Count(k.trace, {"fetch:fulfilled"})
       /\ k.pc = "awaitBody" <=> (k.nJson + k.nText = 1 /\ ~Settled(c))
       /\ Count(k.trace, {"fetch:fulfilled", "fetch:rejected",
                          "body:fulfilled", "body:rejected"}) <= 2

C10_Witness ==
  \E c, d \in Calls :
    /\ calls[c].pc = "awaitBody"
    /\ ~calls[c].res.ok
    /\ calls[c].trace = <<"fetch", "fetch:fulfilled", "text">>
    /\ RequestFailure(d)
    /\ calls[d].trace = <<"fetch", "fetch:fulfilled", "json",
                          "body:fulfilled", "ok?", "settle">>

====
